---- MODULE Spec2Model ----
(***************************************************************************)
(* A model of scripts/weekly_review.py: the weekly review of a directory   *)
(* of dated notes.  The script checks its API credential, walks notes/,    *)
(* resolves each note's date (front matter, then file name), keeps the     *)
(* notes of the trailing window, builds one prompt, calls the generative   *)
(* service and writes weekly_reviews/<today>-Weekly-Review.md.             *)
(*                                                                         *)
(* Text is a sequence of tokens (strings): a token is one character, or a  *)
(* literal of the script kept whole.  Concatenation is \o.                 *)
(***************************************************************************)
EXTENDS Integers, Sequences, FiniteSets, TLC

\* ------------------------------------------------------------------ bounds

\* Files the directory walk may yield.
MaxFiles == 2
\* Clock ticks in a day (tick 0 is midnight).
TicksPerDay == 2
\* Ticks the clock may advance over a behaviour.
MaxAdvance == 2
\* Process starts in a behaviour of SpecRuns.
MaxRuns == 2
\* Characters of the longest note body beyond the truncation limit.
MaxExtra == 3

\* ------------------------------------------------------- program constants

\* note['content'][:2000]
ContentLimit == 2000
\* file[:10]
DatePrefixLen == 10
\* content.split('---', 2)
MaxSplit == 2
\* get_recent_notes(days=7)
DefaultDays == 7

\* ---------------------------------------------------------------- text

Delim == "---"
Whitespace == {" ", "\n", "\t"}
Digits == {"0", "1", "2", "3", "4", "5", "6", "7", "8", "9"}

DigitVal(c) ==
  CASE c = "0" -> 0 [] c = "1" -> 1 [] c = "2" -> 2 [] c = "3" -> 3
    [] c = "4" -> 4 [] c = "5" -> 5 [] c = "6" -> 6 [] c = "7" -> 7
    [] c = "8" -> 8 [] c = "9" -> 9

DigitChar(n) ==
  CASE n = 0 -> "0" [] n = 1 -> "1" [] n = 2 -> "2" [] n = 3 -> "3"
    [] n = 4 -> "4" [] n = 5 -> "5" [] n = 6 -> "6" [] n = 7 -> "7"
    [] n = 8 -> "8" [] n = 9 -> "9"

Min(a, b) == IF a <= b THEN a ELSE b

\* s[:n]
Prefix(s, n) == SubSeq(s, 1, Min(n, Len(s)))

\* s[i:]  (i counted from 1)
Suffix(s, i) == SubSeq(s, i, Len(s))

\* The first position from i on that holds no whitespace (Len(s) + 1 if none).
RECURSIVE FirstInk(_, _)
FirstInk(s, i) ==
  IF i > Len(s) \/ s[i] \notin Whitespace THEN i ELSE FirstInk(s, i + 1)

\* The last position up to i that holds no whitespace (0 if none).
RECURSIVE LastInk(_, _)
LastInk(s, i) ==
  IF i < 1 \/ s[i] \notin Whitespace THEN i ELSE LastInk(s, i - 1)

\* str.strip(): leading and trailing whitespace removed.
Strip(s) == SubSeq(s, FirstInk(s, 1), LastInk(s, Len(s)))

\* The value of a digit string, most significant digit first.
RECURSIVE DigitsVal(_)
DigitsVal(s) ==
  IF s = <<>> THEN 0
  ELSE 10 * DigitsVal(SubSeq(s, 1, Len(s) - 1)) + DigitVal(s[Len(s)])

AllDigits(s) == \A i \in 1..Len(s) : s[i] \in Digits

\* ------------------------------------------------------------ calendar

IsLeap(y) == (y % 4 = 0) /\ ((y % 100 # 0) \/ (y % 400 = 0))

DaysInMonth(y, m) ==
  CASE m \in {1, 3, 5, 7, 8, 10, 12} -> 31
    [] m \in {4, 6, 9, 11} -> 30
    [] m = 2 -> IF IsLeap(y) THEN 29 ELSE 28

DaysBeforeYear(y) ==
  LET p == y - 1 IN p * 365 + (p \div 4) - (p \div 100) + (p \div 400)

RECURSIVE DaysBeforeMonth(_, _)
DaysBeforeMonth(y, m) ==
  IF m = 1 THEN 0 ELSE DaysBeforeMonth(y, m - 1) + DaysInMonth(y, m - 1)

\* date.toordinal()
ToOrdinal(y, m, d) == DaysBeforeYear(y) + DaysBeforeMonth(y, m) + d

\* The years the model's dates fall in.
Years == 2023..2025

\* date.fromordinal()
FromOrdinal(n) ==
  LET y == CHOOSE yy \in Years :
             DaysBeforeYear(yy) < n /\ n <= DaysBeforeYear(yy + 1)
      m == CHOOSE mm \in 1..12 :
             /\ DaysBeforeMonth(y, mm) < n - DaysBeforeYear(y)
             /\ n - DaysBeforeYear(y) <= DaysBeforeMonth(y, mm) + DaysInMonth(y, mm)
  IN  [year |-> y, month |-> m, day |-> n - DaysBeforeYear(y) - DaysBeforeMonth(y, m)]

\* datetime.datetime(year, month, day): midnight of that day.
Datetime(y, m, d) == [year |-> y, month |-> m, day |-> d, tick |-> 0]

\* The instant as a count of ticks.
Ticks(dt) == ToOrdinal(dt.year, dt.month, dt.day) * TicksPerDay + dt.tick

FromTicks(t) ==
  LET ymd == FromOrdinal(t \div TicksPerDay)
  IN  [year |-> ymd.year, month |-> ymd.month, day |-> ymd.day,
       tick |-> t % TicksPerDay]

\* datetime - datetime.timedelta(days=days)
MinusDays(dt, days) == FromTicks(Ticks(dt) - days * TicksPerDay)

\* a >= b on datetimes: year, month, day, time of day in that order.
DatetimeGe(a, b) ==
  \/ a.year > b.year
  \/ a.year = b.year /\ a.month > b.month
  \/ a.year = b.year /\ a.month = b.month /\ a.day > b.day
  \/ a.year = b.year /\ a.month = b.month /\ a.day = b.day /\ a.tick >= b.tick

\* The positions of '-' in s.
DashAt(s) == {i \in 1..Len(s) : s[i] = "-"}

\* datetime.datetime.strptime(s, '%Y-%m-%d'): four digits, a month of one or
\* two digits in 1..12, a day of one or two digits in 1..31, nothing else;
\* the day must exist in the month.  [ok |-> FALSE] stands for ValueError.
Strptime(s) ==
  LET dashes == DashAt(s)
      bad == [ok |-> FALSE, dt |-> Datetime(1, 1, 1)]
  IN  IF Cardinality(dashes) # 2 THEN bad
      ELSE
        LET d1 == CHOOSE i \in dashes : \A j \in dashes : i <= j
            d2 == CHOOSE i \in dashes : \A j \in dashes : j <= i
            ys == SubSeq(s, 1, d1 - 1)
            ms == SubSeq(s, d1 + 1, d2 - 1)
            ds == SubSeq(s, d2 + 1, Len(s))
        IN  IF /\ Len(ys) = 4 /\ AllDigits(ys)
               /\ Len(ms) \in {1, 2} /\ AllDigits(ms)
               /\ Len(ds) \in {1, 2} /\ AllDigits(ds)
               /\ DigitsVal(ys) >= 1
               /\ DigitsVal(ms) \in 1..12
               /\ DigitsVal(ds) >= 1
               /\ DigitsVal(ds) <= DaysInMonth(DigitsVal(ys), DigitsVal(ms))
            THEN [ok |-> TRUE,
                  dt |-> Datetime(DigitsVal(ys), DigitsVal(ms), DigitsVal(ds))]
            ELSE bad

\* n written with at least w digits, zero padded.
RECURSIVE Pad(_, _)
Pad(n, w) ==
  IF w = 0 THEN <<>> ELSE Pad(n \div 10, w - 1) \o <<DigitChar(n % 10)>>

\* str(n) of a natural number.
RECURSIVE IntStr(_)
IntStr(n) ==
  IF n < 10 THEN <<DigitChar(n)>> ELSE IntStr(n \div 10) \o <<DigitChar(n % 10)>>

\* dt.strftime('%Y-%m-%d')
Strftime(dt) ==
  Pad(dt.year, 4) \o <<"-">> \o Pad(dt.month, 2) \o <<"-">> \o Pad(dt.day, 2)

\* ------------------------------------------------------- YAML values

\* What yaml.safe_load returns, as far as the script looks at it: None, a
\* mapping (its keys among title, category, date), a string, a number.
\* A date value is a native date (dtype "date"), a string ("str") or null.
NoYmd == [year |-> 1, month |-> 1, day |-> 1]

YNone ==
  [kind |-> "none", keys |-> {}, title |-> <<>>, category |-> <<>>,
   dtype |-> "null", dnative |-> NoYmd, dstr |-> <<>>, text |-> <<>>]

YMap(keys, title, category, dtype, dnative, dstr) ==
  [kind |-> "map", keys |-> keys, title |-> title, category |-> category,
   dtype |-> dtype, dnative |-> dnative, dstr |-> dstr, text |-> <<>>]

YStr(text) == [YNone EXCEPT !.kind = "str", !.text = text]

YInt == [YNone EXCEPT !.kind = "int"]

\* The front matter texts of the notes on disk.
FmStandup == "\ntitle: Standup\ncategory: Work\ndate: 2024-06-03\n"
FmRetro == "\ndate: '2024-05-20'\n"
FmPlan == "\ntitle: Plan\ndate: soon\n"
FmIdeas == "\ncategory: Ideas\n"
FmBroken == "\ntitle: [unclosed\n"
FmRule == "\njust a paragraph\n"
FmCount == "\n42\n"
FmEmpty == "\n"

\* yaml.safe_load(parts[1]) on the texts above; [ok |-> FALSE] stands for a
\* yaml.YAMLError.
YamlSafeLoad(text) ==
  LET good(v) == [ok |-> TRUE, err |-> "", value |-> v]
  IN  CASE text = <<FmStandup>> ->
             good(YMap({"title", "category", "date"}, <<"Standup">>, <<"Work">>,
                       "date", [year |-> 2024, month |-> 6, day |-> 3], <<>>))
        [] text = <<FmRetro>> ->
             good(YMap({"date"}, <<>>, <<>>, "str", NoYmd,
                       <<"2", "0", "2", "4", "-", "0", "5", "-", "2", "0">>))
        [] text = <<FmPlan>> ->
             good(YMap({"title", "date"}, <<"Plan">>, <<>>, "str", NoYmd,
                       <<"s", "o", "o", "n">>))
        [] text = <<FmIdeas>> ->
             good(YMap({"category"}, <<>>, <<"Ideas">>, "null", NoYmd, <<>>))
        [] text = <<FmRule>> -> good(YStr(<<"just a paragraph">>))
        [] text = <<FmCount>> -> good(YInt)
        [] text = <<FmEmpty>> -> good(YNone)
        [] OTHER -> [ok |-> FALSE, err |-> "while parsing a flow sequence",
                     value |-> YNone]

\* bool(front_matter): None and the empty mapping are falsy.
Truthy(fm) ==
  CASE fm.kind = "none" -> FALSE
    [] fm.kind = "map" -> fm.keys # {}
    [] fm.kind = "str" -> fm.text # <<>>
    [] fm.kind = "int" -> TRUE

\* key in front_matter: a mapping's keys, a string's parts; a number is not
\* iterable (TypeError).
Contains(fm, key) ==
  CASE fm.kind = "map" -> [raised |-> FALSE, err |-> "", value |-> key \in fm.keys]
    [] fm.kind = "str" ->
         [raised |-> FALSE, err |-> "",
          value |-> \E i \in 1..Len(fm.text) : fm.text[i] = key]
    [] OTHER ->
         [raised |-> TRUE, err |-> "argument of type 'int' is not iterable",
          value |-> FALSE]

\* front_matter.get(key, default): only a mapping has get (AttributeError).
Get(fm, key, default) ==
  IF fm.kind = "map"
  THEN [raised |-> FALSE, err |-> "",
        value |-> IF key \notin fm.keys THEN default
                  ELSE IF key = "title" THEN fm.title ELSE fm.category]
  ELSE [raised |-> TRUE, err |-> "object has no attribute 'get'", value |-> default]

\* ------------------------------------------------------- the notes on disk

D(a, b, c, d, e, f, g, h) == <<a, b, c, d, "-", e, f, "-", g, h>>

LongBody == [i \in 1..(ContentLimit + MaxExtra) |-> DigitChar(i % 10)]

Paths ==
  {"notes/standup.md", "notes/2024-06-04-retro.md", "notes/2024-06-01-meeting.md",
   "notes/2024-05-29-plan.md", "notes/2024-06-09-trip.md",
   "notes/2024-06-02-locked.md", "notes/2024-06-02-broken.md",
   "notes/2024-06-03-rule.md", "notes/2024-06-03-count.md", "notes/notes.md",
   "notes/2024-06-01.txt", "notes/2024-05-30-ideas.md"}

\* A file of the walk: its name, whether open() succeeds, its text.
File(name, readable, content) ==
  [file |-> name, readable |-> readable, content |-> content]

FileTable(path) ==
  CASE path = "notes/standup.md" ->
         File(<<"s", "t", "a", "n", "d", "u", "p", ".md">>, TRUE,
              <<Delim, FmStandup, Delim, "\n", "\n">> \o LongBody \o <<" ", "\n">>)
    [] path = "notes/2024-06-04-retro.md" ->
         File(D("2", "0", "2", "4", "0", "6", "0", "4") \o <<"-retro", ".md">>, TRUE,
              <<Delim, FmRetro, Delim, "\n", "w", "e", "n", "t", " ", "o", "k", "\n">>)
    [] path = "notes/2024-06-01-meeting.md" ->
         File(D("2", "0", "2", "4", "0", "6", "0", "1") \o <<"-meeting", ".md">>, TRUE,
              <<"Discussed", " ", "roadmap.", "\n">>)
    [] path = "notes/2024-05-29-plan.md" ->
         File(D("2", "0", "2", "4", "0", "5", "2", "9") \o <<"-plan", ".md">>, TRUE,
              <<Delim, FmPlan, Delim, "\n", "p", "l", "a", "n">>)
    [] path = "notes/2024-06-09-trip.md" ->
         File(D("2", "0", "2", "4", "0", "6", "0", "9") \o <<"-trip", ".md">>, TRUE,
              <<Delim, "\n", "p", "a", "c", "k", "\n">>)
    [] path = "notes/2024-06-02-locked.md" ->
         File(D("2", "0", "2", "4", "0", "6", "0", "2") \o <<"-locked", ".md">>, FALSE,
              <<"s", "e", "c", "r", "e", "t">>)
    [] path = "notes/2024-06-02-broken.md" ->
         File(D("2", "0", "2", "4", "0", "6", "0", "2") \o <<"-broken", ".md">>, TRUE,
              <<Delim, FmBroken, Delim, "\n", "b", "o", "d", "y">>)
    [] path = "notes/2024-06-03-rule.md" ->
         File(D("2", "0", "2", "4", "0", "6", "0", "3") \o <<"-rule", ".md">>, TRUE,
              <<Delim, FmRule, Delim, "\n", "t", "e", "x", "t">>)
    [] path = "notes/2024-06-03-count.md" ->
         File(D("2", "0", "2", "4", "0", "6", "0", "3") \o <<"-count", ".md">>, TRUE,
              <<Delim, FmCount, Delim, "\n", "n", "u", "m">>)
    [] path = "notes/notes.md" ->
         File(<<"n", "o", "t", "e", "s", ".md">>, TRUE,
              <<Delim, FmEmpty, Delim, "\n", "m", "i", "s", "c">>)
    [] path = "notes/2024-06-01.txt" ->
         File(D("2", "0", "2", "4", "0", "6", "0", "1") \o <<".txt">>, TRUE,
              <<"r", "a", "w">>)
    [] path = "notes/2024-05-30-ideas.md" ->
         File(D("2", "0", "2", "4", "0", "5", "3", "0") \o <<"-ideas", ".md">>, TRUE,
              <<Delim, FmIdeas, Delim, " ", "i", "d", "e", "a", "\t">>)

\* ------------------------------------------------------------ parse_note

\* content.startswith('---')
StartsWith(s, tok) == Len(s) >= 1 /\ s[1] = tok

\* file.endswith('.md')
EndsWith(s, tok) == Len(s) >= 1 /\ s[Len(s)] = tok

\* content.split(sep, maxsplit)
RECURSIVE Split(_, _, _)
Split(s, sep, maxsplit) ==
  LET at == {i \in 1..Len(s) : s[i] = sep}
  IN  IF maxsplit = 0 \/ at = {} THEN <<s>>
      ELSE LET i == CHOOSE k \in at : \A j \in at : k <= j
           IN  <<SubSeq(s, 1, i - 1)>> \o Split(Suffix(s, i + 1), sep, maxsplit - 1)

\* parse_note(filepath): (front_matter, body); raised when open() fails;
\* printed holds the line a YAML error prints.
parse_note(filepath) ==
  LET f == FileTable(filepath)
      content == f.content
      plain == [raised |-> FALSE, err |-> "", front_matter |-> YNone,
                body |-> content, printed |-> <<>>]
  IN  IF ~f.readable
      THEN [raised |-> TRUE, err |-> "[Errno 13] Permission denied",
            front_matter |-> YNone, body |-> <<>>, printed |-> <<>>]
      ELSE IF StartsWith(content, Delim)
      THEN LET parts == Split(content, Delim, MaxSplit)
           IN  IF Len(parts) >= 3
               THEN LET loaded == YamlSafeLoad(parts[2])
                    IN  IF loaded.ok
                        THEN [plain EXCEPT !.front_matter = loaded.value,
                                           !.body = parts[3]]
                        ELSE [plain EXCEPT !.printed =
                                <<<<"Error parsing ", filepath, ": ", loaded.err>>>>]
               ELSE plain
      ELSE plain

\* ------------------------------------------------------ get_recent_notes

\* str(d) of a front matter date that is not a native date.
StrOf(fm) == IF fm.dtype = "str" THEN fm.dstr ELSE <<"N", "o", "n", "e">>

\* The front matter's date: a native date at midnight, else strptime of its
\* text; a string front matter has no items (TypeError).  Every failure is
\* swallowed by the bare except.
MetadataDate(fm) ==
  IF fm.kind # "map" THEN [ok |-> FALSE, dt |-> Datetime(1, 1, 1)]
  ELSE IF fm.dtype = "date"
  THEN [ok |-> TRUE, dt |-> Datetime(fm.dnative.year, fm.dnative.month, fm.dnative.day)]
  ELSE Strptime(StrOf(fm))

\* Fallback to filename date.
FilenameDate(file) == Strptime(Prefix(file, DatePrefixLen))

\* note_date of a file: the front matter's date when it has one that parses,
\* else the file name's; raised when 'date' in front_matter raises.
ResolveDate(fm, file) ==
  LET has == IF Truthy(fm) THEN Contains(fm, "date")
             ELSE [raised |-> FALSE, err |-> "", value |-> FALSE]
      meta == IF has.value THEN MetadataDate(fm)
              ELSE [ok |-> FALSE, dt |-> Datetime(1, 1, 1)]
      name == FilenameDate(file)
  IN  IF has.raised
      THEN [raised |-> TRUE, err |-> has.err, found |-> FALSE,
            via |-> "none", note_date |-> Datetime(1, 1, 1)]
      ELSE IF meta.ok
      THEN [raised |-> FALSE, err |-> "", found |-> TRUE,
            via |-> "metadata", note_date |-> meta.dt]
      ELSE IF name.ok
      THEN [raised |-> FALSE, err |-> "", found |-> TRUE,
            via |-> "filename", note_date |-> name.dt]
      ELSE [raised |-> FALSE, err |-> "", found |-> FALSE,
            via |-> "none", note_date |-> Datetime(1, 1, 1)]

\* InWindow comparing the days only.
InWindowByDay(res, cutoff) ==
  res.found /\ DatetimeGe(res.note_date, [cutoff EXCEPT !.tick = 0])

\* note_date and note_date >= cutoff_date
InWindow(res, cutoff) == res.found /\ DatetimeGe(res.note_date, cutoff)

Note(title, content, category, date) ==
  [title |-> title, content |-> content, category |-> category, date |-> date]

SkipLine(file, err) == <<"Skipping file ">> \o file \o <<" due to error: ", err>>

\* The body of the walk's loop for one path: opened (parse_note was called),
\* notes (what is appended to recent_notes) and printed (the lines printed).
ProcessFile(path, cutoff) ==
  LET file == FileTable(path).file
      parsed == parse_note(path)
      fm == parsed.front_matter
      res == ResolveDate(fm, file)
      title == IF Truthy(fm) THEN Get(fm, "title", file)
               ELSE [raised |-> FALSE, err |-> "", value |-> file]
      category == IF Truthy(fm) THEN Get(fm, "category", <<"General">>)
                  ELSE [raised |-> FALSE, err |-> "", value |-> <<"General">>]
      skip(err) == [opened |-> TRUE, notes |-> <<>>,
                    printed |-> parsed.printed \o <<SkipLine(file, err)>>]
  IN  IF ~EndsWith(file, ".md")
      THEN [opened |-> FALSE, notes |-> <<>>, printed |-> <<>>]
      ELSE IF parsed.raised THEN skip(parsed.err)
      ELSE IF res.raised THEN skip(res.err)
      ELSE IF ~InWindow(res, cutoff)
      THEN [opened |-> TRUE, notes |-> <<>>, printed |-> parsed.printed]
      ELSE IF title.raised THEN skip(title.err)
      ELSE IF category.raised THEN skip(category.err)
      ELSE [opened |-> TRUE,
            notes |-> <<Note(title.value, Strip(parsed.body), category.value,
                             res.note_date)>>,
            printed |-> parsed.printed]

\* ------------------------------------------------------- generate_review

NoNotesMessage == <<"No notes found for this week.">>

PromptIntro == <<"You are a personal knowledge assistant. ... Here are the notes:\n">>

\* NoteBlock cutting the content one character short.
NoteBlockCutShort(note) ==
  <<"\n", Delim, "\n", "Title: ">> \o note.title
    \o <<"\n", "Category: ">> \o note.category
    \o <<"\n", "Date: ">> \o Strftime(note.date)
    \o <<"\n", "Content:", "\n">> \o Prefix(note.content, ContentLimit - 1) \o <<"\n">>

\* The f-string appended for one note.
NoteBlock(note) ==
  <<"\n", Delim, "\n", "Title: ">> \o note.title
    \o <<"\n", "Category: ">> \o note.category
    \o <<"\n", "Date: ">> \o Strftime(note.date)
    \o <<"\n", "Content:", "\n">> \o Prefix(note.content, ContentLimit) \o <<"\n">>

\* for note in notes: prompt += ...
RECURSIVE BuildPrompt(_, _)
BuildPrompt(prompt, notes) ==
  IF notes = <<>> THEN prompt
  ELSE BuildPrompt(prompt \o NoteBlock(Head(notes)), Tail(notes))

ErrorReview(err) == <<"Error generating review: ", err>>

\* What the service may answer, and the errors its call may raise.
Responses == {<<"## Executive Summary", "\n", "...">>}
Errors == {"429 quota exceeded", "503 service unavailable"}

\* The service's part of a call: nothing yet, a text, an exception.
NoReply == [kind |-> "none", text |-> <<>>, error |-> ""]
TextReply(text) == [kind |-> "text", text |-> text, error |-> ""]
ErrorReply(err) == [kind |-> "error", text |-> <<>>, error |-> err]

\* ------------------------------------------------------------- the writer

OutputDir == "weekly_reviews"

ReviewName(date_str) == <<OutputDir, "/">> \o date_str \o <<"-Weekly-Review.md">>

Heading(date_str) == <<"# Weekly Review - ">> \o date_str \o <<"\n\n">>

\* WriteFile opening the file to append ('a').
WriteFileAppend(files, filename, heading, body) ==
  {f \in files : f.name # filename}
    \cup {[name |-> filename,
           content |-> (IF \E f \in files : f.name = filename
                        THEN (CHOOSE f \in files : f.name = filename).content
                        ELSE <<>>) \o heading \o body]}

\* open(filename, 'w'), two writes, close: the file holds what was written.
WriteFile(files, filename, heading, body) ==
  {f \in files : f.name # filename}
    \cup {[name |-> filename, content |-> heading \o body]}

\* ------------------------------------------------------------------ state

VARIABLES
  clock,          \* the instant, in ticks
  api_key,        \* os.environ.get("GEMINI_API_KEY") of this process
  notes_exists,   \* os.path.exists('notes')
  walk,           \* the paths os.walk yields, in its order
  out_exists,     \* weekly_reviews/ exists
  out_files,      \* the files of weekly_reviews/
  entry,          \* "script": the file run as a program; "call": generate_review called
  pc,             \* where the process is
  run,            \* process starts so far
  cutoff_date, scan_i, recent_notes,
  printed,        \* the lines printed by this process
  opened,         \* the paths this process opened for reading
  requests,       \* the prompts this process sent to the service
  reply,          \* what the service did with the prompt
  review_content,
  written,        \* the names this process opened for writing
  exit_code,      \* -1 while running
  out_before      \* weekly_reviews/ as this process found it

vars ==
  <<clock, api_key, notes_exists, walk, out_exists, out_files, entry, pc, run,
    cutoff_date, scan_i, recent_notes, printed, opened, requests, reply,
    review_content, written, exit_code, out_before>>

\* 2024-06-05, midnight.
ClockStart == Ticks(Datetime(2024, 6, 5))

ClockEnd == ClockStart + MaxAdvance

\* os.environ.get: unset (None), set to the empty string, set to a key.
NoKey == [present |-> FALSE, value |-> ""]
Keys == {NoKey, [present |-> TRUE, value |-> ""], [present |-> TRUE, value |-> "AIza-key"]}

\* not api_key
Missing(key) == ~key.present \/ key.value = ""

\* The sequences of up to n distinct members of S: a walk yields a path once.
RECURSIVE SeqsUpTo(_, _)
SeqsUpTo(S, n) ==
  IF n = 0 THEN {<<>>}
  ELSE LET shorter == SeqsUpTo(S, n - 1)
       IN  shorter \cup
             {Append(w, p) : <<w, p>> \in
                {wp \in shorter \X S : \A i \in 1..Len(wp[1]) : wp[1][i] # wp[2]}}

Walks == SeqsUpTo(Paths, MaxFiles)

\* weekly_reviews/ before the first start: absent, or holding the
\* review an earlier process wrote on the starting day.
OldReview ==
  [name |-> ReviewName(Strftime(FromTicks(ClockStart))),
   content |-> Heading(Strftime(FromTicks(ClockStart))) \o <<"an earlier review">>]

OutDirs == {[exists |-> FALSE, files |-> {}], [exists |-> TRUE, files |-> {OldReview}]}

Fresh ==
  /\ api_key = NoKey
  /\ cutoff_date = Datetime(1, 1, 1)
  /\ scan_i = 0
  /\ recent_notes = <<>>
  /\ printed = <<>>
  /\ opened = <<>>
  /\ requests = <<>>
  /\ reply = NoReply
  /\ review_content = <<>>
  /\ written = <<>>
  /\ exit_code = -1

Init ==
  /\ clock = ClockStart
  /\ notes_exists \in BOOLEAN
  /\ walk \in Walks
  /\ ~notes_exists => walk = <<>>
  /\ \E o \in OutDirs :
       /\ out_exists = o.exists
       /\ out_files = o.files
       /\ out_before = o
  /\ entry = "script"
  /\ pc = "start"
  /\ run = 1
  /\ Fresh

\* ---------------------------------------------------------------- actions

\* Startup that warns of the missing credential and goes on.
StartupNoExit ==
  /\ pc = "start"
  /\ \E key \in Keys :
       /\ api_key' = key
       /\ printed' = Append(printed,
            IF Missing(key)
            THEN <<"Warning: GEMINI_API_KEY not set. Skipping review generation.">>
            ELSE <<"Starting weekly review...">>)
  /\ pc' = "scan_entry"
  /\ UNCHANGED <<clock, notes_exists, walk, out_exists, out_files, entry, run,
                 cutoff_date, scan_i, recent_notes, opened, requests, reply,
                 review_content, written, exit_code, out_before>>

\* Lines 8-13 and main's first line: the credential check, then main().
Startup ==
  /\ pc = "start"
  /\ \E key \in Keys :
       /\ api_key' = key
       /\ IF Missing(key)
          THEN /\ printed' = Append(printed,
                     <<"Warning: GEMINI_API_KEY not set. Skipping review generation.">>)
               /\ exit_code' = 0
               /\ pc' = "exited"
          ELSE /\ printed' = Append(printed, <<"Starting weekly review...">>)
               /\ exit_code' = exit_code
               /\ pc' = "scan_entry"
  /\ UNCHANGED <<clock, notes_exists, walk, out_exists, out_files, entry, run,
                 cutoff_date, scan_i, recent_notes, opened, requests,
                 review_content, written, out_before, reply>>

\* get_recent_notes up to the walk: the cutoff, the missing directory.
GetRecentNotesEntry ==
  /\ pc = "scan_entry"
  /\ \E now \in clock..ClockEnd :
       /\ clock' = now
       /\ cutoff_date' = MinusDays(FromTicks(now), DefaultDays)
  /\ recent_notes' = <<>>
  /\ IF ~notes_exists
     THEN /\ printed' = Append(printed, <<"Notes directory 'notes' does not exist.">>)
          /\ pc' = "scanned"
          /\ scan_i' = scan_i
     ELSE /\ printed' = printed
          /\ pc' = "walk"
          /\ scan_i' = 1
  /\ UNCHANGED <<api_key, notes_exists, walk, out_exists, out_files, entry, run,
                 opened, requests, review_content, written, exit_code, out_before, reply>>

\* ScanFile that lets a file's error end the walk.
ScanFileAbortsOnError ==
  /\ pc = "walk"
  /\ scan_i <= Len(walk)
  /\ \E r \in {ProcessFile(walk[scan_i], cutoff_date)} :
       /\ recent_notes' = recent_notes \o r.notes
       /\ printed' = printed \o r.printed
       /\ opened' = IF r.opened THEN Append(opened, walk[scan_i]) ELSE opened
       /\ pc' = IF \E i \in 1..Len(r.printed) : r.printed[i][1] = "Skipping file "
                THEN "scanned" ELSE pc
  /\ scan_i' = scan_i + 1
  /\ UNCHANGED <<clock, api_key, notes_exists, walk, out_exists, out_files, entry,
                 run, cutoff_date, requests, reply, review_content, written,
                 exit_code, out_before>>

\* One file of the walk.
ScanFile ==
  /\ pc = "walk"
  /\ scan_i <= Len(walk)
  /\ LET r == ProcessFile(walk[scan_i], cutoff_date)
     IN  /\ recent_notes' = recent_notes \o r.notes
         /\ printed' = printed \o r.printed
         /\ opened' = IF r.opened THEN Append(opened, walk[scan_i]) ELSE opened
  /\ scan_i' = scan_i + 1
  /\ UNCHANGED <<clock, api_key, notes_exists, walk, out_exists, out_files, entry,
                 pc, run, cutoff_date, requests, review_content, written,
                 exit_code, out_before, reply>>

\* return recent_notes
ScanReturn ==
  /\ pc = "walk"
  /\ scan_i > Len(walk)
  /\ pc' = "scanned"
  /\ UNCHANGED <<clock, api_key, notes_exists, walk, out_exists, out_files, entry,
                 run, cutoff_date, scan_i, recent_notes, printed, opened, requests,
                 review_content, written, exit_code, out_before, reply>>

\* print(f"Found {len(recent_notes)} notes from the last week.")
FoundLine(notes) == <<"Found ">> \o IntStr(Len(notes)) \o <<" notes from the last week.">>

\* MainCheck without the early return.
MainCheckNoReturn ==
  /\ pc = "scanned"
  /\ printed' = Append(printed, FoundLine(recent_notes))
  /\ pc' = "generate"
  /\ UNCHANGED <<clock, api_key, notes_exists, walk, out_exists, out_files, entry,
                 run, cutoff_date, scan_i, recent_notes, opened, requests, reply,
                 review_content, written, exit_code, out_before>>

\* main after get_recent_notes: the count, the early return, the call of
\* generate_review.
MainCheck ==
  /\ pc = "scanned"
  /\ IF recent_notes = <<>>
     THEN /\ printed' = printed \o <<FoundLine(recent_notes), <<"No notes to review.">>>>
          /\ exit_code' = 0
          /\ pc' = "done"
     ELSE /\ printed' = Append(printed, FoundLine(recent_notes))
          /\ exit_code' = exit_code
          /\ pc' = "generate"
  /\ UNCHANGED <<clock, api_key, notes_exists, walk, out_exists, out_files, entry,
                 run, cutoff_date, scan_i, recent_notes, opened, requests,
                 review_content, written, out_before, reply>>

\* Where generate_review returns to.
AfterReview == IF entry = "script" THEN "write" ELSE "returned"

\* generate_review without the early return.
GenerateReviewAlwaysCalls ==
  /\ pc = "generate"
  /\ requests' = Append(requests, BuildPrompt(PromptIntro, recent_notes))
  /\ pc' = "awaiting"
  /\ UNCHANGED <<clock, api_key, notes_exists, walk, out_exists, out_files, entry,
                 run, cutoff_date, scan_i, recent_notes, printed, opened, reply,
                 review_content, written, exit_code, out_before>>

\* generate_review up to the service call.
GenerateReview ==
  /\ pc = "generate"
  /\ IF recent_notes = <<>>
     THEN /\ review_content' = NoNotesMessage
          /\ requests' = requests
          /\ pc' = AfterReview
     ELSE /\ requests' = Append(requests, BuildPrompt(PromptIntro, recent_notes))
          /\ review_content' = review_content
          /\ pc' = "awaiting"
  /\ UNCHANGED <<clock, api_key, notes_exists, walk, out_exists, out_files, entry,
                 run, cutoff_date, scan_i, recent_notes, printed, opened, written,
                 exit_code, out_before, reply>>

\* return response.text
ServiceReturns ==
  /\ pc = "awaiting"
  /\ \E text \in Responses :
       /\ reply' = TextReply(text)
       /\ review_content' = text
  /\ pc' = AfterReview
  /\ UNCHANGED <<clock, api_key, notes_exists, walk, out_exists, out_files, entry,
                 run, cutoff_date, scan_i, recent_notes, printed, opened, requests,
                 written, exit_code, out_before>>

\* The service's exception left uncaught: the process dies of it.
ServiceRaisesUncaught ==
  /\ pc = "awaiting"
  /\ \E err \in Errors : reply' = ErrorReply(err)
  /\ pc' = "crashed"
  /\ exit_code' = 1
  /\ UNCHANGED <<clock, api_key, notes_exists, walk, out_exists, out_files, entry,
                 run, cutoff_date, scan_i, recent_notes, printed, opened, requests,
                 review_content, written, out_before>>

\* except Exception as e: return f"Error generating review: {e}"
ServiceRaises ==
  /\ pc = "awaiting"
  /\ \E err \in Errors :
       /\ reply' = ErrorReply(err)
       /\ review_content' = ErrorReview(err)
  /\ pc' = AfterReview
  /\ UNCHANGED <<clock, api_key, notes_exists, walk, out_exists, out_files, entry,
                 run, cutoff_date, scan_i, recent_notes, printed, opened, requests,
                 written, exit_code, out_before>>

\* main from os.makedirs to the end.
WriteReview ==
  /\ pc = "write"
  /\ \E now \in clock..ClockEnd :
       LET date_str == Strftime(FromTicks(now))
           filename == ReviewName(date_str)
       IN  /\ clock' = now
           /\ out_files' = WriteFile(out_files, filename, Heading(date_str),
                                     review_content)
           /\ written' = Append(written, filename)
           /\ printed' = Append(printed, <<"Review saved to ">> \o filename)
  /\ out_exists' = TRUE
  /\ exit_code' = 0
  /\ pc' = "done"
  /\ UNCHANGED <<api_key, notes_exists, walk, entry, run, cutoff_date, scan_i,
                 recent_notes, opened, requests, review_content, out_before, reply>>

Next ==
  \/ Startup
  \/ GetRecentNotesEntry
  \/ ScanFile
  \/ ScanReturn
  \/ MainCheck
  \/ GenerateReview
  \/ ServiceReturns
  \/ ServiceRaises
  \/ WriteReview

Spec == Init /\ [][Next]_vars

\* ------------------------------------------------- the script run again

\* The notes the repeated runs find: one inside the window all along, one on
\* its edge.
RunPaths == {"notes/2024-06-01-meeting.md", "notes/2024-05-29-plan.md"}

InitRuns ==
  /\ clock = ClockStart
  /\ notes_exists = TRUE
  /\ walk \in SeqsUpTo(RunPaths, MaxFiles)
  /\ out_exists = FALSE
  /\ out_files = {}
  /\ out_before = [exists |-> FALSE, files |-> {}]
  /\ entry = "script"
  /\ pc = "start"
  /\ run = 1
  /\ Fresh

\* The script is started again once the process before it has ended.
Restart ==
  /\ pc \in {"done", "exited"}
  /\ entry = "script"
  /\ run < MaxRuns
  /\ run' = run + 1
  /\ pc' = "start"
  /\ out_before' = [exists |-> out_exists, files |-> out_files]
  /\ api_key' = NoKey
  /\ cutoff_date' = Datetime(1, 1, 1)
  /\ scan_i' = 0
  /\ recent_notes' = <<>>
  /\ printed' = <<>>
  /\ opened' = <<>>
  /\ requests' = <<>>
  /\ reply' = NoReply
  /\ review_content' = <<>>
  /\ written' = <<>>
  /\ exit_code' = -1
  /\ UNCHANGED <<clock, notes_exists, walk, out_exists, out_files, entry>>

NextRuns == Next \/ Restart

SpecRuns == InitRuns /\ [][NextRuns]_vars

\* ------------------------------------------- generate_review called alone

\* The notes get_recent_notes makes of the files on disk at the start.
NotesOnDisk ==
  LET cutoff == MinusDays(FromTicks(ClockStart), DefaultDays)
  IN  {ProcessFile(p, cutoff).notes[1] :
         p \in {q \in Paths : ProcessFile(q, cutoff).notes # <<>>}}

InitCall ==
  /\ clock = ClockStart
  /\ notes_exists = FALSE
  /\ walk = <<>>
  /\ out_exists = FALSE
  /\ out_files = {}
  /\ out_before = [exists |-> FALSE, files |-> {}]
  /\ entry = "call"
  /\ pc = "generate"
  /\ run = 1
  /\ api_key = NoKey
  /\ cutoff_date = Datetime(1, 1, 1)
  /\ scan_i = 0
  /\ recent_notes \in SeqsUpTo(NotesOnDisk, MaxFiles)
  /\ printed = <<>>
  /\ opened = <<>>
  /\ requests = <<>>
  /\ reply = NoReply
  /\ review_content = <<>>
  /\ written = <<>>
  /\ exit_code = -1

\* The script run, or generate_review called with a sequence of notes.
InitAll == Init \/ InitCall

SpecAll == InitAll /\ [][Next]_vars

\* ------------------------------------------------------------------ claims

\* A step of the walk: ScanFile on walk[scan_i].
ScanStep == pc = "walk" /\ scan_i <= Len(walk) /\ scan_i' = scan_i + 1

\* A file the scan takes for a note and can read.
ReadableNote(path) ==
  EndsWith(FileTable(path).file, ".md") /\ FileTable(path).readable

\* The date the specification's policy gives a note: the metadata's 'date'
\* when it is a native date or a string that reads as YYYY-MM-DD, else the
\* first ten characters of the file name, else none.
ClaimDate(fm, file) ==
  LET none == [found |-> FALSE, via |-> "none", date |-> Datetime(1, 1, 1)]
      hasDate == fm.kind = "map" /\ "date" \in fm.keys
  IN  IF hasDate /\ fm.dtype = "date"
      THEN [found |-> TRUE, via |-> "metadata",
            date |-> [year |-> fm.dnative.year, month |-> fm.dnative.month,
                      day |-> fm.dnative.day, tick |-> 0]]
      ELSE IF hasDate /\ fm.dtype = "str" /\ Strptime(fm.dstr).ok
      THEN [found |-> TRUE, via |-> "metadata", date |-> Strptime(fm.dstr).dt]
      ELSE IF Strptime(SubSeq(file, 1, Min(10, Len(file)))).ok
      THEN [found |-> TRUE, via |-> "filename",
            date |-> Strptime(SubSeq(file, 1, Min(10, Len(file)))).dt]
      ELSE none

\* C1: a scanned note file yields a Note if and only if a date resolves for
\* it and that date, at midnight, is not before now - window; a file whose
\* date is before the cutoff never yields one.
C1_RetainedIffInWindow ==
  [][ScanStep /\ ReadableNote(walk[scan_i]) =>
       LET file == FileTable(walk[scan_i]).file
           fm == parse_note(walk[scan_i]).front_matter
           d == ClaimDate(fm, file)
       IN  /\ Len(recent_notes') \in {Len(recent_notes), Len(recent_notes) + 1}
           /\ (Len(recent_notes') = Len(recent_notes) + 1)
                <=> (d.found /\ Ticks(d.date) >= Ticks(cutoff_date))]_vars

\* C2: the date is resolved by an ordered chain: the metadata's date when it
\* is a native date or a YYYY-MM-DD string, else the first ten characters of
\* the file name; when neither resolves the file yields no note and the scan
\* prints nothing for it.
C2_FallbackChain ==
  [][ScanStep /\ ReadableNote(walk[scan_i]) =>
       LET file == FileTable(walk[scan_i]).file
           parsed == parse_note(walk[scan_i])
           d == ClaimDate(parsed.front_matter, file)
           r == ResolveDate(parsed.front_matter, file)
       IN  /\ ~r.raised
           /\ r.found = d.found
           /\ r.via = d.via
           /\ d.found => r.note_date = d.date
           /\ Len(recent_notes') = Len(recent_notes) + 1
                => recent_notes'[Len(recent_notes')].date = d.date
           /\ ~d.found => /\ recent_notes' = recent_notes
                          /\ printed' = printed \o parsed.printed]_vars

\* The states of a script run in which recent_notes is being filled or is
\* what get_recent_notes returned, and the clock is still the scan's now.
AfterCutoff == entry = "script" /\ pc \in {"walk", "scanned", "generate", "awaiting", "write"}

\* C8 as stated: every Note of the result is dated within the trailing
\* window: not before now - window and not after now.
C8_WithinTrailingWindow ==
  AfterCutoff =>
    \A i \in 1..Len(recent_notes) :
      /\ Ticks(recent_notes[i].date) >= clock - DefaultDays * TicksPerDay
      /\ Ticks(recent_notes[i].date) <= clock

\* C8 as amended: every Note of the result is dated not before now - window;
\* nothing bounds it from above.
C8_NotBeforeCutoff ==
  AfterCutoff =>
    \A i \in 1..Len(recent_notes) :
      Ticks(recent_notes[i].date) >= clock - DefaultDays * TicksPerDay

\* A note dated exactly now - window was kept, and one dated after now.
C8_Witness ==
  /\ entry = "script" /\ pc = "scanned"
  /\ \E i \in 1..Len(recent_notes) :
       Ticks(recent_notes[i].date) = clock - DefaultDays * TicksPerDay
  /\ \E i \in 1..Len(recent_notes) : Ticks(recent_notes[i].date) > clock

\* weekly_reviews/ as it is now.
OutNow == [exists |-> out_exists, files |-> out_files]

\* C3: with zero eligible notes the review body is exactly the fixed "no notes
\* found" message and the service is never invoked: generate_review called
\* with no notes returns the message and sends nothing; a script run that
\* found no notes ends having sent nothing and made no other body.
C3_NoNotesNoService ==
  /\ (entry = "call" /\ pc = "returned" /\ recent_notes = <<>>)
       => /\ review_content = <<"No notes found for this week.">>
          /\ requests = <<>>
          /\ reply.kind = "none"
  /\ (entry = "script" /\ pc = "done" /\ recent_notes = <<>>)
       => /\ review_content \in {<<>>, <<"No notes found for this week.">>}
          /\ requests = <<>>
          /\ reply.kind = "none"
  /\ ~(recent_notes = <<>> /\ pc \in {"awaiting", "write"})

\* generate_review was called with no notes and has returned the message.
C3_Witness ==
  /\ entry = "call" /\ pc = "returned" /\ recent_notes = <<>>
  /\ review_content = <<"No notes found for this week.">>

\* C4: when the service call fails, generate_review does not raise: the
\* review body is "Error generating review: " followed by the error's
\* description, the run goes on to the writer, and once done it has written
\* today's file with that body and exits normally.
C4_ServiceErrorBecomesBody ==
  (entry = "script" /\ reply.kind = "error") =>
    /\ recent_notes # <<>>
    /\ pc \in {"write", "done"}
    /\ review_content = <<"Error generating review: ", reply.error>>
    /\ pc = "done" =>
         LET today == Strftime(FromTicks(clock))
         IN  /\ exit_code = 0
             /\ written = <<<<"weekly_reviews", "/">> \o today \o <<"-Weekly-Review.md">>>>
             /\ \E f \in out_files :
                  /\ f.name = written[1]
                  /\ f.content = <<"# Weekly Review - ">> \o today \o <<"\n\n">>
                                   \o <<"Error generating review: ", reply.error>>

\* A run whose service call failed has written its file and ended.
C4_Witness ==
  /\ entry = "script" /\ pc = "done" /\ reply.kind = "error"
  /\ Len(written) = 1 /\ exit_code = 0

\* C5: with the credential absent the run is aborted before any scanning: no
\* note file is read, the service is not called, weekly_reviews/ is neither
\* created nor changed, and the exit code is 0.
C5_MissingCredentialAborts ==
  (entry = "script" /\ pc # "start" /\ (~api_key.present \/ api_key.value = "")) =>
    /\ pc = "exited"
    /\ exit_code = 0
    /\ scan_i = 0
    /\ opened = <<>>
    /\ requests = <<>>
    /\ written = <<>>
    /\ OutNow = out_before

\* A run without the credential has exited, with notes to scan and an earlier
\* review on disk.
C5_Witness ==
  /\ entry = "script" /\ pc = "exited" /\ ~api_key.present
  /\ Len(walk) > 0 /\ out_before.files # {} /\ exit_code = 0

\* ---- C6

\* open() fails for the note.
IoError(path) == EndsWith(FileTable(path).file, ".md") /\ ~FileTable(path).readable

\* The note has a front matter block that yaml cannot load.
YamlError(path) ==
  LET content == FileTable(path).content
      parts == Split(content, "---", 2)
  IN  /\ ReadableNote(path)
      /\ StartsWith(content, "---")
      /\ Len(parts) >= 3
      /\ ~YamlSafeLoad(parts[2]).ok

\* C6 as stated: a file with a parse error (bad metadata, or an I/O error) is
\* logged and skipped: it adds no note.
C6_ParseErrorSkipsFile ==
  [][ScanStep /\ (IoError(walk[scan_i]) \/ YamlError(walk[scan_i])) =>
       /\ recent_notes' = recent_notes
       /\ Len(printed') > Len(printed)]_vars

\* What a note without metadata contributes: its file name's date decides,
\* its title is the file name, its category General, its content all its text.
PlainContribution(path, cutoff) ==
  LET f == FileTable(path)
      d == Strptime(SubSeq(f.file, 1, Min(10, Len(f.file))))
  IN  IF d.ok /\ Ticks(d.dt) >= Ticks(cutoff)
      THEN <<[title |-> f.file, content |-> Strip(f.content),
              category |-> <<"General">>, date |-> d.dt]>>
      ELSE <<>>

\* What the files walk[1..k] contribute when a file whose processing raises
\* contributes nothing, a file with a YAML error counts as one without
\* metadata, and every other file counts as it does alone.
RECURSIVE C6_Expected(_, _)
C6_Expected(k, cutoff) ==
  IF k = 0 THEN <<>>
  ELSE LET path == walk[k]
           alone == ProcessFile(path, cutoff)
       IN  C6_Expected(k - 1, cutoff) \o
             (IF IoError(path) THEN <<>>
              ELSE IF YamlError(path) THEN PlainContribution(path, cutoff)
              ELSE alone.notes)

\* The scan printed "Skipping file <name> due to error: ...".
SkipPrinted(path) ==
  LET file == FileTable(path).file
  IN  \E i \in 1..Len(printed) :
        /\ printed[i][1] = "Skipping file "
        /\ Len(printed[i]) = Len(file) + 3
        /\ SubSeq(printed[i], 2, 1 + Len(file)) = file

\* parse_note printed "Error parsing <path>: ...".
ErrorPrinted(path) ==
  \E i \in 1..Len(printed) :
    printed[i][1] = "Error parsing " /\ printed[i][2] = path

\* C6 as amended: an I/O error on a file is caught by the scan, which prints
\* "Skipping file ...", and the file adds no note; a YAML error is caught by
\* parse_note, which prints "Error parsing ...", and the file is then taken
\* as one without metadata (it adds a note when its file name's date is in
\* the window); either way the scan goes on through every file and the other
\* files contribute what they contribute alone.
C6_ErrorsAreIsolated ==
  (entry = "script" /\ notes_exists /\ pc \in {"walk", "scanned"}) =>
    /\ recent_notes = C6_Expected(scan_i - 1, cutoff_date)
    /\ pc = "scanned" => scan_i = Len(walk) + 1
    /\ \A i \in 1..(scan_i - 1) :
         /\ IoError(walk[i]) => SkipPrinted(walk[i])
         /\ YamlError(walk[i]) => ErrorPrinted(walk[i]) /\ ~SkipPrinted(walk[i])
         /\ EndsWith(FileTable(walk[i]).file, ".md")
              => \E j \in 1..Len(opened) : opened[j] = walk[i]

\* An unreadable note was skipped, and the note after it, whose front matter
\* does not load, was kept on its file name's date.
C6_Witness ==
  /\ entry = "script" /\ pc = "scanned" /\ Len(walk) = 2
  /\ IoError(walk[1]) /\ YamlError(walk[2])
  /\ Len(recent_notes) = 1
  /\ recent_notes[1].title = FileTable(walk[2]).file

\* ---- C7

\* The tokens of a note's block: the delimiter line and the four labels with
\* their line breaks, the title, the category, the ten characters of the
\* date, and the content up to 2000 characters.
C7_BlockLen(note) ==
  4 + Len(note.title) + 2 + Len(note.category) + 2 + 10 + 3
    + (IF Len(note.content) <= 2000 THEN Len(note.content) ELSE 2000) + 1

\* Where note i's block starts in the prompt (the tokens before it).
RECURSIVE C7_Offset(_, _)
C7_Offset(notes, i) ==
  IF i = 1 THEN Len(PromptIntro)
  ELSE C7_Offset(notes, i - 1) + C7_BlockLen(notes[i - 1])

\* The ten tokens read YYYY-MM-DD for the date.
C7_IsoOf(d, date) ==
  /\ Len(d) = 10 /\ d[5] = "-" /\ d[8] = "-"
  /\ \A k \in {1, 2, 3, 4, 6, 7, 9, 10} : d[k] \in Digits
  /\ 1000 * DigitVal(d[1]) + 100 * DigitVal(d[2]) + 10 * DigitVal(d[3])
       + DigitVal(d[4]) = date.year
  /\ 10 * DigitVal(d[6]) + DigitVal(d[7]) = date.month
  /\ 10 * DigitVal(d[9]) + DigitVal(d[10]) = date.day

\* C7: the prompt sent holds, after its introduction, one block per note of
\* the filtered sequence, in that order and nothing else: the delimiter line,
\* the title, the category, the date as YYYY-MM-DD and the content cut to its
\* first 2000 characters (unchanged when no longer).
C7_PromptHoldsEveryNote ==
  \A r \in 1..Len(requests) :
    LET prompt == requests[r]
        notes == recent_notes
    IN  /\ notes # <<>>
        /\ Len(prompt) = C7_Offset(notes, Len(notes) + 1)
        /\ SubSeq(prompt, 1, Len(PromptIntro)) = PromptIntro
        /\ \A i \in 1..Len(notes) :
             LET note == notes[i]
                 a == C7_Offset(notes, i)
                 b == a + 4 + Len(note.title)
                 c == b + 2 + Len(note.category)
                 e == c + 2 + 10 + 3
                 shown == IF Len(note.content) <= 2000 THEN note.content
                          ELSE SubSeq(note.content, 1, 2000)
             IN  /\ SubSeq(prompt, a + 1, a + 4) = <<"\n", "---", "\n", "Title: ">>
                 /\ SubSeq(prompt, a + 5, b) = note.title
                 /\ SubSeq(prompt, b + 1, b + 2) = <<"\n", "Category: ">>
                 /\ SubSeq(prompt, b + 3, c) = note.category
                 /\ SubSeq(prompt, c + 1, c + 2) = <<"\n", "Date: ">>
                 /\ C7_IsoOf(SubSeq(prompt, c + 3, c + 12), note.date)
                 /\ SubSeq(prompt, c + 13, e) = <<"\n", "Content:", "\n">>
                 /\ SubSeq(prompt, e + 1, e + Len(shown)) = shown
                 /\ prompt[e + Len(shown) + 1] = "\n"

\* A prompt was sent for two notes, the first longer than 2000 characters
\* and the second shorter.
C7_Witness ==
  /\ entry = "script" /\ Len(requests) = 1 /\ Len(recent_notes) = 2
  /\ Len(recent_notes[1].content) > 2000
  /\ Len(recent_notes[2].content) < 2000
  /\ recent_notes[2].content # <<>>

\* ---- C9

\* The calendar date in a review file's name.
C9_DateOf(f) == SubSeq(f.name, 3, 12)

\* C9: weekly_reviews/ holds at most one review file per calendar date, and a
\* run that has written leaves today's file holding its own heading and
\* review body and nothing more, whatever an earlier run of the day wrote.
C9_SameDayOverwrites ==
  /\ \A f, g \in out_files : C9_DateOf(f) = C9_DateOf(g) => f = g
  /\ (pc = "done" /\ written # <<>>) =>
       LET today == Strftime(FromTicks(clock))
           mine == {f \in out_files : C9_DateOf(f) = today}
       IN  /\ Cardinality(mine) = 1
           /\ \A f \in mine :
                /\ f.name = <<"weekly_reviews", "/">> \o today \o <<"-Weekly-Review.md">>
                /\ f.content = <<"# Weekly Review - ">> \o today \o <<"\n\n">>
                                 \o review_content

\* A second run of the day has replaced the file the first run wrote, whose
\* body was another.
C9_Witness ==
  /\ run = 2 /\ pc = "done" /\ written # <<>>
  /\ \E f \in out_before.files :
       /\ f.name = written[1]
       /\ \A g \in out_files : g.name = f.name => g.content # f.content
  /\ Cardinality(out_files) = 1

\* ---- C10

\* C10: in a script run the output file is written if and only if the filter
\* returned a note: at most once, after the one service call has returned a
\* text or an error, and as the run's last act; a run with no eligible note
\* (the notes directory missing included) leaves weekly_reviews/ as it was.
C10_WrittenIffNotes ==
  entry = "script" =>
    /\ Len(written) <= 1
    /\ Len(requests) <= 1
    /\ pc = "done" => (Len(written) = 1 <=> recent_notes # <<>>)
    /\ written # <<>> =>
         /\ pc = "done"
         /\ Len(requests) = 1
         /\ reply.kind \in {"text", "error"}
    /\ written = <<>> => OutNow = out_before

\* A run that found notes has called the service once and then written once.
C10_Witness ==
  /\ entry = "script" /\ pc = "done"
  /\ Len(written) = 1 /\ Len(requests) = 1 /\ reply.kind = "text"
  /\ ~out_before.exists /\ out_exists

====
